---- MODULE Spec2Model ----
(***************************************************************************)
(* piheat: a temperature monitor.  GET /api/temperature reads the sensor   *)
(* (or a synthetic value), inserts one row into temperature_readings and   *)
(* answers with the value; GET /api/chart-data?period=p runs one SQL query *)
(* over the table and turns its rows into chart points.                    *)
(*                                                                         *)
(* Representation.                                                         *)
(*  - An instant is a number of seconds since 1970-01-01T00:00:00Z.        *)
(*  - A text timestamp is a record of its kind (the layout it is written   *)
(*    in) and its calendar fields; it is produced from an instant by the   *)
(*    civil-calendar conversion and read back by the inverse conversion.   *)
(*  - A temperature is an integer number of 1/Scale degrees; an average is *)
(*    an exact fraction <<numerator, denominator>> in lowest terms.        *)
(***************************************************************************)
EXTENDS Integers, Sequences, FiniteSets, TLC

VARIABLES store, schema, proc, inflight, now, zone, ticks, last, input, output

vars == <<store, schema, proc, inflight, now, zone, ticks, last, input, output>>

(***************************************************************************)
(* Bounds of the model.                                                    *)
(***************************************************************************)
MaxRows == 2
MaxTicks == 1
MaxResultRows == 3
MaxRequests == 2

(***************************************************************************)
(* Units.                                                                  *)
(***************************************************************************)
\* temperatures are counted in 1/Scale degree: 1/1000 (sensor file) and
\* 1/30 (synthetic value: s/6 and 0.2 steps) are both multiples of it
Scale == 3 * 1000
SecondsPerDay == 24 * 3600

(***************************************************************************)
(* Calendar arithmetic (proleptic Gregorian), as done by SQLite's date     *)
(* functions and by Go's time package.                                     *)
(***************************************************************************)
\* days since 1970-01-01 of year y, month m, day d; d may exceed the length
\* of the month and then runs into the following month (SQLite computeJD)
DaysFromCivil(y, m, d) ==
    LET yy  == IF m <= 2 THEN y - 1 ELSE y
        era == yy \div 400
        yoe == yy - era * 400
        mp  == IF m > 2 THEN m - 3 ELSE m + 9
        doy == (153 * mp + 2) \div 5 + d - 1
        doe == yoe * 365 + yoe \div 4 - yoe \div 100 + doy
    IN  era * 146097 + doe - 719468

\* <<year, month, day>> of a number of days since 1970-01-01; each step
\* hands the quantities it has computed to the next one
CivilFromDays(z0) ==
    LET FromMp(era, yoe, doy, mp) ==
            LET m == IF mp < 10 THEN mp + 3 ELSE mp - 9
            IN  <<yoe + era * 400 + (IF m <= 2 THEN 1 ELSE 0),
                  m,
                  doy - (153 * mp + 2) \div 5 + 1>>
        FromDoy(era, yoe, doy) == FromMp(era, yoe, doy, (5 * doy + 2) \div 153)
        FromYoe(era, doe, yoe) ==
            FromDoy(era, yoe, doe - (365 * yoe + yoe \div 4 - yoe \div 100))
        FromDoe(era, doe) ==
            FromYoe(era, doe,
                    (doe - doe \div 1460 + doe \div 36524 - doe \div 146096)
                        \div 365)
        FromEra(z, era) == FromDoe(era, z - era * 146097)
        FromZ(z) == FromEra(z, z \div 146097)
    IN  FromZ(z0 + 719468)

\* the calendar fields of an instant, in UTC
Fields(t) ==
    LET Of(ymd, sod) ==
            [y |-> ymd[1], mo |-> ymd[2], d |-> ymd[3],
             h |-> sod \div 3600, mi |-> (sod % 3600) \div 60, s |-> sod % 60]
    IN  Of(CivilFromDays(t \div SecondsPerDay), t % SecondsPerDay)

\* the instant of calendar fields (time.Time.Unix of a parsed UTC time)
Instant(f) ==
    DaysFromCivil(f.y, f.mo, f.d) * SecondsPerDay + f.h * 3600 + f.mi * 60 + f.s

(***************************************************************************)
(* Text timestamps.  kind is the layout of the text:                       *)
(*   "datetime"  YYYY-MM-DD HH:MM:SS   (CURRENT_TIMESTAMP, datetime())     *)
(*   "date"      YYYY-MM-DD            (date())                            *)
(*   "rfc3339"   YYYY-MM-DDTHH:MM:SSZ  (a time.Time scanned into a string) *)
(*   "garbage"   a text in none of these layouts                           *)
(*   "null"      SQL NULL                                                  *)
(***************************************************************************)
Text(kind, f) == [kind |-> kind, y |-> f.y, mo |-> f.mo, d |-> f.d,
                  h |-> f.h, mi |-> f.mi, s |-> f.s]

ZeroFields == [y |-> 0, mo |-> 0, d |-> 0, h |-> 0, mi |-> 0, s |-> 0]
NullText == Text("null", ZeroFields)
GarbageText == Text("garbage", ZeroFields)

\* the fields of a text as the tuple whose lexicographic order is the order
\* of the zero-padded text
Key(x) == <<x.y, x.mo, x.d, x.h, x.mi, x.s>>

RECURSIVE LexLE(_, _)
LexLE(a, b) ==
    IF a = <<>> THEN TRUE
    ELSE IF Head(a) # Head(b) THEN Head(a) < Head(b)
    ELSE LexLE(Tail(a), Tail(b))

\* SQL  a >= b  on two texts of the same layout (binary collation)
TextGE(a, b) == LexLE(Key(b), Key(a))

(***************************************************************************)
(* Fractions, for AVG().                                                   *)
(***************************************************************************)
RECURSIVE Gcd(_, _)
Gcd(a, b) == IF b = 0 THEN a ELSE Gcd(b, a % b)

\* n/d in lowest terms, n >= 0 and d > 0
Frac(n, d) == LET g == Gcd(n, d) IN <<n \div g, d \div g>>

RECURSIVE SumTemps(_)
SumTemps(rows) ==
    IF rows = <<>> THEN 0 ELSE Head(rows).temperature + SumTemps(Tail(rows))

\* SQL AVG(temperature) over a non-empty group of stored rows
Avg(rows) == Frac(SumTemps(rows), Len(rows))

(***************************************************************************)
(* Sensor Reader: getTemperature.                                          *)
(***************************************************************************)
\* what /sys/class/thermal/thermal_zone0/temp holds when it is read
SensorStates ==
    {[state |-> "absent", milli |-> 0], [state |-> "unreadable", milli |-> 0],
     [state |-> "malformed", milli |-> 0],
     [state |-> "valid", milli |-> 50000], [state |-> "valid", milli |-> 60000]}

\* the residues of the millisecond clock the noise term reads in the
\* service's runs (SpecSynthetic takes all ten)
MsResidues == {5}

\* a mutant: the upper limit mistyped
ClampTypo(temp) ==
    IF temp < 40 * Scale THEN 40 * Scale
    ELSE IF temp > 8 * Scale THEN 8 * Scale
    ELSE temp

\* the value kept in the range 40..80 degrees
Clamp(temp) ==
    IF temp < 40 * Scale THEN 40 * Scale
    ELSE IF temp > 80 * Scale THEN 80 * Scale
    ELSE temp

\* the dummy temperature at epoch second sec and epoch millisecond ms
SyntheticTemp(sec, ms) ==
    LET baseTemp  == 55 * Scale
        variation == 5 * Scale - (10 * Scale * (sec % 60)) \div 60
        noise     == ((ms % 10) - 5) * (Scale \div 5)
    IN  Clamp(baseTemp + variation + noise)

\* a mutant: the value of the sensor file is kept in the range as well
GetTemperatureClampAll(sensor, sec, ms) ==
    IF sensor.state = "valid"
    THEN [temp |-> Clamp((sensor.milli * Scale) \div 1000), err |-> FALSE]
    ELSE [temp |-> SyntheticTemp(sec, ms), err |-> FALSE]

\* getTemperature: the value it returns and its error (always nil)
GetTemperature(sensor, sec, ms) ==
    IF sensor.state = "valid"
    THEN [temp |-> (sensor.milli * Scale) \div 1000, err |-> FALSE]
    ELSE [temp |-> SyntheticTemp(sec, ms), err |-> FALSE]

(***************************************************************************)
(* Reading Store.                                                          *)
(***************************************************************************)
\* CURRENT_TIMESTAMP: the UTC date and time as YYYY-MM-DD HH:MM:SS
CurrentTimestamp(t) == Text("datetime", Fields(t))

\* a mutant: the row is written twice
SaveTemperatureTwice(st, temp, t, ok) ==
    IF ok
    THEN [store |-> st \o <<[id |-> Len(st) + 1, temperature |-> temp,
                             timestamp |-> CurrentTimestamp(t)],
                            [id |-> Len(st) + 2, temperature |-> temp,
                             timestamp |-> CurrentTimestamp(t)]>>,
          err |-> FALSE]
    ELSE [store |-> st, err |-> TRUE]

\* a mutant: a write that meets a row of the same second takes its place
SaveTemperatureLostUpdate(st, temp, t, ok) ==
    IF ~ ok THEN [store |-> st, err |-> TRUE]
    ELSE IF st # <<>> /\ st[Len(st)].timestamp = CurrentTimestamp(t)
    THEN [store |-> [st EXCEPT ![Len(st)].temperature = temp], err |-> FALSE]
    ELSE [store |-> Append(st, [id |-> Len(st) + 1, temperature |-> temp,
                                timestamp |-> CurrentTimestamp(t)]),
          err |-> FALSE]

\* saveTemperature: INSERT INTO temperature_readings (temperature) VALUES (?)
\* ok is whether the store accepts the insert
SaveTemperature(st, temp, t, ok) ==
    IF ok
    THEN [store |-> Append(st, [id |-> Len(st) + 1, temperature |-> temp,
                                timestamp |-> CurrentTimestamp(t)]),
          err |-> FALSE]
    ELSE [store |-> st, err |-> TRUE]

\* the database file ./temperature.db: schema tells whether the table and
\* the index exist, store holds the rows of the table (none while the table
\* does not exist)
NoSchema == [table |-> FALSE, index |-> FALSE]
FullSchema == [table |-> TRUE, index |-> TRUE]

\* a mutant: the table is dropped and created anew
CreateTableFresh(d, ok) ==
    IF ok
    THEN [schema |-> [d.schema EXCEPT !.table = TRUE], store |-> <<>>,
          err |-> FALSE]
    ELSE [schema |-> d.schema, store |-> d.store, err |-> TRUE]

\* db.Exec(CREATE TABLE IF NOT EXISTS temperature_readings ...) on the
\* database d; ok is whether the statement can be executed
CreateTableIfNotExists(d, ok) ==
    IF ok
    THEN [schema |-> [d.schema EXCEPT !.table = TRUE], store |-> d.store,
          err |-> FALSE]
    ELSE [schema |-> d.schema, store |-> d.store, err |-> TRUE]

\* db.Exec(CREATE INDEX IF NOT EXISTS idx_timestamp ...): the statement
\* needs the table
CreateIndexIfNotExists(d, ok) ==
    IF ok /\ d.schema.table
    THEN [schema |-> [d.schema EXCEPT !.index = TRUE], store |-> d.store,
          err |-> FALSE]
    ELSE [schema |-> d.schema, store |-> d.store, err |-> TRUE]

\* a mutant: a failure is logged and the start goes on
InitDatabaseLogOnly(d, openOk, tableOk, indexOk) ==
    LET tbl == CreateTableIfNotExists(d, openOk /\ tableOk)
        idx == CreateIndexIfNotExists(tbl, openOk /\ indexOk)
    IN  [schema |-> idx.schema, store |-> idx.store, fatal |-> FALSE]

\* initDatabase on the database d: the database afterwards and whether
\* log.Fatal ended the process; openOk, tableOk and indexOk are whether
\* sql.Open and the two statements succeed
InitDatabase(d, openOk, tableOk, indexOk) ==
    LET tbl == CreateTableIfNotExists(d, tableOk)
        idx == CreateIndexIfNotExists(tbl, indexOk)
    IN  IF ~ openOk
        THEN [schema |-> d.schema, store |-> d.store, fatal |-> TRUE]
        ELSE IF tbl.err
        THEN [schema |-> tbl.schema, store |-> tbl.store, fatal |-> TRUE]
        ELSE [schema |-> idx.schema, store |-> idx.store, fatal |-> idx.err]

(***************************************************************************)
(* History Aggregator: the four queries of chartDataHandler.               *)
(***************************************************************************)
\* a mutant: a month taken as 30 days and a year as 365 days
DatetimeNowFixedDays(t, modifier) ==
    CASE modifier = "-1 day"   -> Text("datetime", Fields(t - SecondsPerDay))
      [] modifier = "-7 days"  -> Text("datetime", Fields(t - 7 * SecondsPerDay))
      [] modifier = "-1 month" -> Text("datetime", Fields(t - 30 * SecondsPerDay))
      [] modifier = "-1 year"  -> Text("datetime", Fields(t - 365 * SecondsPerDay))

\* datetime('now', modifier) at instant t, for the modifiers the queries use;
\* '-1 month' and '-1 year' change the month or year field and normalise
DatetimeNow(t, modifier) ==
    LET f   == Fields(t)
        sod == t % SecondsPerDay
    IN  CASE modifier = "-1 day"   -> Text("datetime", Fields(t - SecondsPerDay))
          [] modifier = "-7 days"  -> Text("datetime", Fields(t - 7 * SecondsPerDay))
          [] modifier = "-1 month" ->
               LET y == IF f.mo = 1 THEN f.y - 1 ELSE f.y
                   m == IF f.mo = 1 THEN 12 ELSE f.mo - 1
               IN  Text("datetime",
                        Fields(DaysFromCivil(y, m, f.d) * SecondsPerDay + sod))
          [] modifier = "-1 year"  ->
               Text("datetime",
                    Fields(DaysFromCivil(f.y - 1, f.mo, f.d) * SecondsPerDay + sod))

\* datetime(timestamp, 'start of hour'): SQLite has the modifiers 'start of
\* day', 'start of month' and 'start of year' and no 'start of hour'; a
\* modifier it does not know makes the function return NULL
DatetimeStartOfHour(ts) == NullText

\* date(timestamp)
Date(ts) == Text("date", [y |-> ts.y, mo |-> ts.mo, d |-> ts.d,
                          h |-> 0, mi |-> 0, s |-> 0])

\* a mutant: the day of the month is kept
DateKeepDay(ts) == Text("date", [y |-> ts.y, mo |-> ts.mo, d |-> ts.d,
                                 h |-> 0, mi |-> 0, s |-> 0])

\* date(timestamp, 'start of month')
DateStartOfMonth(ts) == Text("date", [y |-> ts.y, mo |-> ts.mo, d |-> 1,
                                      h |-> 0, mi |-> 0, s |-> 0])

\* the row r put into the sorted sequence rows, after the rows whose
\* timestamp is not greater (rows of one timestamp stay in rowid order)
RECURSIVE InsertByTimestamp(_, _)
InsertByTimestamp(r, rows) ==
    IF rows = <<>> THEN <<r>>
    ELSE IF LexLE(Key(Head(rows).timestamp), Key(r.timestamp))
         THEN <<Head(rows)>> \o InsertByTimestamp(r, Tail(rows))
         ELSE <<r>> \o rows

\* a mutant: ORDER BY timestamp DESC
RECURSIVE OrderByTimestampDesc(_)
OrderByTimestampDesc(rows) ==
    IF rows = <<>> THEN <<>>
    ELSE OrderByTimestampDesc(
             SelectSeq(Tail(rows), LAMBDA r :
                 ~ LexLE(Key(r.timestamp), Key(Head(rows).timestamp))))
         \o <<Head(rows)>>
         \o OrderByTimestampDesc(
             SelectSeq(Tail(rows), LAMBDA r :
                 LexLE(Key(r.timestamp), Key(Head(rows).timestamp))))

\* ORDER BY timestamp
RECURSIVE OrderByTimestamp(_)
OrderByTimestamp(rows) ==
    IF rows = <<>> THEN <<>>
    ELSE InsertByTimestamp(rows[Len(rows)],
                           OrderByTimestamp(SubSeq(rows, 1, Len(rows) - 1)))

\* the grouping expression of a query, named by its SQL text
GroupExpr(expr, ts) ==
    CASE expr = "datetime(timestamp, 'start of hour')" -> DatetimeStartOfHour(ts)
      [] expr = "date(timestamp)"                      -> Date(ts)
      [] expr = "date(timestamp, 'start of month')"    -> DateStartOfMonth(ts)

\* the distinct values of the grouping expression over the rows
GroupKeys(rows, expr) == {GroupExpr(expr, rows[i].timestamp) : i \in 1..Len(rows)}

\* SELECT AVG(temperature), expr AS timestamp ... GROUP BY expr: one row per
\* distinct value of expr (NULL is one value), in no particular order
RECURSIVE GroupRows(_, _, _)
GroupRows(rows, keys, expr) ==
    IF keys = {} THEN <<>>
    ELSE LET k == CHOOSE x \in keys : TRUE
         IN  <<[temperature |->
                    Avg(SelectSeq(rows, LAMBDA r : GroupExpr(expr, r.timestamp) = k)),
                timestamp   |-> k,
                decltype    |-> ""]>>
             \o GroupRows(rows, keys \ {k}, expr)

GroupBy(rows, expr) == GroupRows(rows, GroupKeys(rows, expr), expr)

\* SELECT temperature, timestamp: the column keeps its declared type DATETIME
RawRows(rows) ==
    [i \in 1..Len(rows) |->
        [temperature |-> <<rows[i].temperature, 1>>,
         timestamp   |-> rows[i].timestamp,
         decltype    |-> "DATETIME"]]

\* the period values a request carries: missing or empty, the four known
\* ones and an unknown one
Periods == {"", "day", "week", "month", "year", "decade"}

\* a mutant: the default branch takes the week query
SwitchDefaultWeek(period) ==
    CASE period = "day" ->
           [window |-> "-1 day", group |-> "", timeFormat |-> "15:04"]
      [] period = "week" ->
           [window |-> "-7 days", group |-> "datetime(timestamp, 'start of hour')",
            timeFormat |-> "01-02 15:04"]
      [] period = "month" ->
           [window |-> "-1 month", group |-> "date(timestamp)",
            timeFormat |-> "01-02"]
      [] period = "year" ->
           [window |-> "-1 year", group |-> "date(timestamp, 'start of month')",
            timeFormat |-> "2006-01"]
      [] OTHER ->
           [window |-> "-7 days", group |-> "datetime(timestamp, 'start of hour')",
            timeFormat |-> "01-02 15:04"]

\* switch period: the query (its window modifier and its GROUP BY expression,
\* "" for none) and the display layout
Switch(period) ==
    CASE period = "day" ->
           [window |-> "-1 day", group |-> "", timeFormat |-> "15:04"]
      [] period = "week" ->
           [window |-> "-7 days", group |-> "datetime(timestamp, 'start of hour')",
            timeFormat |-> "01-02 15:04"]
      [] period = "month" ->
           [window |-> "-1 month", group |-> "date(timestamp)",
            timeFormat |-> "01-02"]
      [] period = "year" ->
           [window |-> "-1 year", group |-> "date(timestamp, 'start of month')",
            timeFormat |-> "2006-01"]
      [] OTHER ->
           [window |-> "-1 day", group |-> "", timeFormat |-> "15:04"]

\* a mutant: WHERE timestamp <= cutoff
WhereOlder(st, cutoff) == SelectSeq(st, LAMBDA r : TextGE(cutoff, r.timestamp))

\* WHERE timestamp >= cutoff, the rows kept in the order of the table
Where(st, cutoff) == SelectSeq(st, LAMBDA r : TextGE(r.timestamp, cutoff))

\* SELECT ... [GROUP BY ...] ORDER BY timestamp over the selected rows
Aggregate(selected, q) ==
    IF q.group = ""
    THEN RawRows(OrderByTimestamp(selected))
    ELSE OrderByTimestamp(GroupBy(selected, q.group))

\* db.Query(query) at instant t: the rows of the result set
Query(st, t, q) == Aggregate(Where(st, DatetimeNow(t, q.window)), q)

\* rows.Scan(&temp, &timestampStr): NULL cannot be scanned into a string; a
\* text of a column declared DATETIME reaches Scan as a time.Time (the zero
\* time when the text is no timestamp) and is written as RFC 3339
Scan(row) ==
    IF row.timestamp.kind = "null"
    THEN [err |-> TRUE, temp |-> row.temperature, timestampStr |-> NullText]
    ELSE IF row.decltype = "DATETIME"
    THEN [err |-> FALSE, temp |-> row.temperature,
          timestampStr |->
              IF row.timestamp.kind \in {"datetime", "date", "rfc3339"}
              THEN Text("rfc3339", Fields(Instant(row.timestamp)))
              ELSE Text("rfc3339", [y |-> 1, mo |-> 1, d |-> 1,
                                    h |-> 0, mi |-> 0, s |-> 0])]
    ELSE [err |-> FALSE, temp |-> row.temperature, timestampStr |-> row.timestamp]

\* time.Parse(layout, str): layout is the kind of text it accepts
TimeParse(layout, str) ==
    IF str.kind = layout
    THEN [err |-> FALSE, unix |-> Instant(str)]
    ELSE [err |-> TRUE, unix |-> 0]

\* the three attempts: RFC 3339, then date and time, then date only
ParseTimestamp(str) ==
    LET first == TimeParse("rfc3339", str)
        second == TimeParse("datetime", str)
        third == TimeParse("date", str)
    IN  IF ~ first.err THEN first
        ELSE IF ~ second.err THEN second
        ELSE third

\* a mutant: the layout 01-02 written day first
FormatDayFirst(unix, timeFormat) ==
    LET f == Fields(unix)
    IN  [layout |-> timeFormat,
         text |-> CASE timeFormat = "15:04"       -> <<f.h, f.mi>>
                    [] timeFormat = "01-02 15:04" -> <<f.d, f.mo, f.h, f.mi>>
                    [] timeFormat = "01-02"       -> <<f.d, f.mo>>
                    [] timeFormat = "2006-01"     -> <<f.y, f.mo>>]

\* parsedTime.Format(timeFormat): the fields the layout shows
Format(unix, timeFormat) ==
    LET f == Fields(unix)
    IN  [layout |-> timeFormat,
         text |-> CASE timeFormat = "15:04"       -> <<f.h, f.mi>>
                    [] timeFormat = "01-02 15:04" -> <<f.mo, f.d, f.h, f.mi>>
                    [] timeFormat = "01-02"       -> <<f.mo, f.d>>
                    [] timeFormat = "2006-01"     -> <<f.y, f.mo>>]

\* var data []ChartDataPoint: a nil slice
NilData == [nil |-> TRUE, elems |-> <<>>]

\* a mutant: the loop ends at the first row it cannot use
RECURSIVE RowsLoopBreak(_, _, _)
RowsLoopBreak(scanned, timeFormat, data) ==
    IF scanned = <<>> THEN data
    ELSE LET r == Head(scanned)
             p == ParseTimestamp(r.timestampStr)
         IN  IF r.err \/ p.err THEN data
             ELSE RowsLoopBreak(Tail(scanned), timeFormat,
                      [nil |-> FALSE,
                       elems |-> Append(data.elems,
                           [temperature |-> r.temp,
                            timestamp   |-> Format(p.unix, timeFormat),
                            unixTime    |-> p.unix])])

\* for rows.Next() { ... }: scanned is the outcome of Scan for each row
RECURSIVE RowsLoop(_, _, _)
RowsLoop(scanned, timeFormat, data) ==
    IF scanned = <<>> THEN data
    ELSE LET r == Head(scanned)
             p == ParseTimestamp(r.timestampStr)
         IN  IF r.err \/ p.err
             THEN RowsLoop(Tail(scanned), timeFormat, data)
             ELSE RowsLoop(Tail(scanned), timeFormat,
                      [nil |-> FALSE,
                       elems |-> Append(data.elems,
                           [temperature |-> r.temp,
                            timestamp   |-> Format(p.unix, timeFormat),
                            unixTime    |-> p.unix])])

\* json.NewEncoder(w).Encode(data): a nil slice is written as null
Encode(data) ==
    [json |-> IF data.nil THEN "null" ELSE "array", elems |-> data.elems]

ScanAll(rows) == [i \in 1..Len(rows) |-> Scan(rows[i])]

(***************************************************************************)
(* HTTP Surface: what a handler answers, given what it meets.              *)
(***************************************************************************)
\* the end of chartDataHandler once the query has succeeded: the loop over
\* the rows and the response
ChartRespond(scanned, timeFormat) ==
    [status |-> 200, body |-> Encode(RowsLoop(scanned, timeFormat, NilData))]

\* a mutant: a failed query is sent again and its rows are written
ChartDataHandlerRetry(st, t, periodParam, queryOk) ==
    LET period == IF periodParam = "" THEN "day" ELSE periodParam
        q      == Switch(period)
        rows   == Query(st, t, q)
    IN  [status  |-> IF queryOk THEN 200 ELSE 500,
         body    |-> ChartRespond(ScanAll(rows), q.timeFormat).body,
         rows    |-> rows,
         queries |-> IF queryOk THEN 1 ELSE 2]

\* chartDataHandler at instant t on the table st; queryOk is whether db.Query
\* returns rows or an error.  rows is the result set the query gave and
\* queries the number of times db.Query was called
ChartDataHandler(st, t, periodParam, queryOk) ==
    LET period == IF periodParam = "" THEN "day" ELSE periodParam
        q      == Switch(period)
        rows   == Query(st, t, q)
        resp   == ChartRespond(ScanAll(rows), q.timeFormat)
    IN  IF ~ queryOk
        THEN [status  |-> 500,
              body    |-> [json |-> "error text", elems |-> <<>>],
              rows    |-> <<>>,
              queries |-> 1]
        ELSE [status  |-> resp.status,
              body    |-> resp.body,
              rows    |-> rows,
              queries |-> 1]

\* a mutant: a failed insert is answered with an error
TemperatureHandlerFailOnSave(st, t, z, sensor, ms, insertOk) ==
    LET got   == GetTemperature(sensor, t, ms)
        saved == SaveTemperature(st, got.temp, t, insertOk)
    IN  [status      |-> IF got.err \/ saved.err THEN 500 ELSE 200,
         temperature |-> IF saved.err THEN 0 ELSE got.temp,
         timestamp   |-> Text("datetime", Fields(t + z)),
         store       |-> saved.store,
         reads       |-> 1,
         inserts     |-> 1]

\* a mutant: a retention policy, only the newest row is kept
TemperatureHandlerPrune(st, t, z, sensor, ms, insertOk) ==
    LET got   == GetTemperature(sensor, t, ms)
        saved == SaveTemperature(st, got.temp, t, insertOk)
    IN  [status      |-> 200,
         temperature |-> got.temp,
         timestamp   |-> Text("datetime", Fields(t + z)),
         store       |-> IF saved.store = <<>> THEN <<>>
                         ELSE <<saved.store[Len(saved.store)]>>,
         reads       |-> 1,
         inserts     |-> 1]

\* temperatureHandler at instant t, in a time zone z seconds east of UTC;
\* sensor is what the sensor file holds, ms the millisecond clock, insertOk
\* whether the store accepts the insert.  store is the table afterwards
TemperatureHandler(st, t, z, sensor, ms, insertOk) ==
    LET got   == GetTemperature(sensor, t, ms)
        saved == SaveTemperature(st, got.temp, t, insertOk)
    IN  IF got.err
        THEN [status      |-> 500,
              temperature |-> 0,
              timestamp   |-> NullText,
              store       |-> st,
              reads       |-> 1,
              inserts     |-> 0]
        ELSE [status      |-> 200,
              temperature |-> got.temp,
              timestamp   |-> Text("datetime", Fields(t + z)),
              store       |-> saved.store,
              reads       |-> 1,
              inserts     |-> 1]

(***************************************************************************)
(* The service as a state machine.                                         *)
(*   store  the rows of temperature_readings, in rowid order               *)
(*   schema whether the table and the index exist in the database file     *)
(*   proc   the process: "main" (started, before initDatabase), "serving"  *)
(*          (listening) or "exited" (ended by log.Fatal)                   *)
(*   inflight  the temperature requests being handled concurrently         *)
(*   now    the wall clock                                                 *)
(*   zone   the offset of the local time zone, in seconds east of UTC      *)
(*   ticks  how often the clock was advanced (bounds the model)            *)
(*   last   the request handled last, with what it met and its response    *)
(***************************************************************************)
\* 2024-02-14 12:00:00 UTC, a leap year's February
StartInstant ==
    Instant([y |-> 2024, mo |-> 2, d |-> 14, h |-> 12, mi |-> 0, s |-> 0])

\* the steps of the clock between two requests: half an hour, and half an
\* hour more than a day, than 29 days and than 365 days
Jumps == {1800, SecondsPerDay + 1800, 29 * SecondsPerDay + 1800,
          365 * SecondsPerDay + 1800}

\* the time zone the service runs in: one hour east of UTC
ZoneOffsets == {3600}

NoOp == [op |-> "none"]
NoInput == [fn |-> "none"]
NoOutput == [fn |-> "none"]

Init ==
    /\ store = <<>>
    /\ schema = NoSchema
    /\ proc = "main"
    /\ inflight = <<>>
    /\ now = StartInstant
    /\ zone \in ZoneOffsets
    /\ ticks = 0
    /\ last = NoOp
    /\ input = NoInput
    /\ output = NoOutput

\* main: initDatabase, then the handlers are registered and the server
\* listens, unless log.Fatal has ended the process
Main ==
    /\ proc = "main"
    /\ \E openOk \in BOOLEAN, tableOk \in BOOLEAN, indexOk \in BOOLEAN :
          LET r == InitDatabase([schema |-> schema, store |-> store],
                                openOk, tableOk, indexOk)
          IN  /\ schema' = r.schema
              /\ store' = r.store
              /\ proc' = IF r.fatal THEN "exited" ELSE "serving"
              /\ last' = [op |-> "main", openOk |-> openOk, tableOk |-> tableOk,
                          indexOk |-> indexOk, fatal |-> r.fatal]
    /\ UNCHANGED <<inflight, now, zone, ticks, input, output>>

\* the service manager starts the process again (Restart=always); the
\* database file stays as it is
Restart ==
    /\ proc \in {"serving", "exited"}
    /\ proc' = "main"
    /\ last' = NoOp
    /\ UNCHANGED <<store, schema, inflight, now, zone, ticks, input, output>>

\* time passes
Tick ==
    /\ proc = "serving"
    /\ ticks < MaxTicks
    /\ \E j \in Jumps : now' = now + j
    /\ ticks' = ticks + 1
    /\ last' = NoOp
    /\ UNCHANGED <<store, schema, proc, inflight, zone, input, output>>

\* GET /
IndexRequest ==
    /\ proc = "serving"
    /\ last' = [op |-> "index", status |-> 200]
    /\ UNCHANGED <<store, schema, proc, inflight, now, zone, ticks, input, output>>

\* GET /api/temperature
TemperatureRequest ==
    /\ proc = "serving"
    /\ \E sensor \in SensorStates, ms \in MsResidues, insertOk \in BOOLEAN :
          LET r == TemperatureHandler(store, now, zone, sensor, ms, insertOk)
          IN  /\ insertOk => Len(store) < MaxRows
              /\ store' = r.store
              /\ last' = [op |-> "temperature", sensor |-> sensor,
                          insertOk |-> insertOk, status |-> r.status,
                          temperature |-> r.temperature,
                          timestamp |-> r.timestamp,
                          reads |-> r.reads, inserts |-> r.inserts]
    /\ UNCHANGED <<schema, proc, inflight, now, zone, ticks, input, output>>

\* GET /api/chart-data?period=p
ChartRequest ==
    /\ proc = "serving"
    /\ \E p \in Periods, queryOk \in BOOLEAN :
          LET r == ChartDataHandler(store, now, p, queryOk)
          IN  last' = [op |-> "chart", period |-> p, queryOk |-> queryOk,
                       status |-> r.status, body |-> r.body, rows |-> r.rows,
                       queries |-> r.queries]
    /\ UNCHANGED <<store, schema, proc, inflight, now, zone, ticks, input, output>>

Next ==
    Main \/ Restart \/ Tick \/ IndexRequest \/ TemperatureRequest \/ ChartRequest

Spec == Init /\ [][Next]_vars

(***************************************************************************)
(* getTemperature as a function of the sensor file and the clock.          *)
(***************************************************************************)
\* the sensor files of the service's runs, and one above 80 degrees
SensorInputs == SensorStates \cup {[state |-> "valid", milli |-> 95000]}

InitSynthetic ==
    /\ store = <<>>
    /\ schema = FullSchema
    /\ proc = "serving"
    /\ inflight = <<>>
    /\ now = StartInstant
    /\ zone \in ZoneOffsets
    /\ ticks = 0
    /\ last = NoOp
    /\ input \in [fn : {"getTemperature"}, sensor : SensorInputs,
                  sec : {StartInstant + k : k \in 0..59}, ms : 0..9]
    /\ output = NoOutput

CallGetTemperature ==
    /\ input.fn = "getTemperature"
    /\ output = NoOutput
    /\ output' = [fn |-> "getTemperature",
                  result |-> GetTemperature(input.sensor, input.sec, input.ms)]
    /\ UNCHANGED <<store, schema, proc, inflight, now, zone, ticks, last, input>>

SpecSynthetic == InitSynthetic /\ [][CallGetTemperature]_vars

(***************************************************************************)
(* The row loop of chartDataHandler as a function of the rows it is given. *)
(***************************************************************************)
\* two instants, of different days, the second not on a full minute
RowInstants == {StartInstant, StartInstant + SecondsPerDay + 1805}

\* the rows a result set may hold: a NULL timestamp, a text in no known
\* layout, and an instant written in one of the three layouts; the value
\* of a row tells the instant it was taken at
ResultRows ==
    {[kind |-> "null", t |-> 0, temp |-> <<40 * Scale, 1>>],
     [kind |-> "garbage", t |-> 0, temp |-> <<45 * Scale, 1>>]}
    \cup {[kind |-> k, t |-> t,
           temp |-> <<IF t = StartInstant THEN 50 * Scale ELSE 60 * Scale, 1>>] :
            k \in {"rfc3339", "datetime", "date"}, t \in RowInstants}

\* what rows.Scan leaves in temp and timestampStr for such a row
Scanned(row) ==
    CASE row.kind = "null" ->
           [err |-> TRUE, temp |-> row.temp, timestampStr |-> NullText]
      [] row.kind = "garbage" ->
           [err |-> FALSE, temp |-> row.temp, timestampStr |-> GarbageText]
      [] row.kind = "date" ->
           [err |-> FALSE, temp |-> row.temp,
            timestampStr |-> Date(Text("datetime", Fields(row.t)))]
      [] OTHER ->
           [err |-> FALSE, temp |-> row.temp,
            timestampStr |-> Text(row.kind, Fields(row.t))]

RECURSIVE SeqsUpTo(_, _)
SeqsUpTo(S, n) ==
    IF n = 0 THEN {<<>>}
    ELSE LET shorter == SeqsUpTo(S, n - 1)
         IN  shorter \cup {Append(q, x) : q \in shorter, x \in S}

InitRows ==
    /\ store = <<>>
    /\ schema = FullSchema
    /\ proc = "serving"
    /\ inflight = <<>>
    /\ now = StartInstant
    /\ zone \in ZoneOffsets
    /\ ticks = 0
    /\ last = NoOp
    /\ input \in [fn : {"rowsLoop"}, rows : SeqsUpTo(ResultRows, MaxResultRows),
                  timeFormat : {"15:04", "01-02 15:04", "01-02", "2006-01"}]
    /\ output = NoOutput

CallRowsLoop ==
    /\ input.fn = "rowsLoop"
    /\ output = NoOutput
    /\ output' = [fn |-> "rowsLoop",
                  resp |-> ChartRespond(
                      [i \in 1..Len(input.rows) |-> Scanned(input.rows[i])],
                      input.timeFormat)]
    /\ UNCHANGED <<store, schema, proc, inflight, now, zone, ticks, last, input>>

SpecRows == InitRows /\ [][CallRowsLoop]_vars

(***************************************************************************)
(* Concurrent temperature requests.  The server runs every request in a    *)
(* goroutine of its own; temp and err are local to the goroutine, db is    *)
(* shared, and the store executes one INSERT at a time.  A request in      *)
(* flight is a record of its position in temperatureHandler (pc), its      *)
(* local temp, and of what its insert did: inserts the calls of            *)
(* saveTemperature it made, insertOk whether the call returned nil, row    *)
(* the rowid the INSERT gave and savedAt the instant of the INSERT.        *)
(***************************************************************************)
InitConcurrent ==
    /\ store = <<>>
    /\ schema = FullSchema
    /\ proc = "serving"
    /\ inflight = <<>>
    /\ now = StartInstant
    /\ zone \in ZoneOffsets
    /\ ticks = 0
    /\ last = NoOp
    /\ input = NoInput
    /\ output = NoOutput

\* a GET /api/temperature arrives: its goroutine is at the top of
\* temperatureHandler
Accept ==
    /\ proc = "serving"
    /\ Len(inflight) < MaxRequests
    /\ inflight' = Append(inflight,
                          [pc |-> "getTemperature", temp |-> 0, inserts |-> 0,
                           insertOk |-> FALSE, row |-> 0, savedAt |-> 0,
                           status |-> 0, timestamp |-> NullText])
    /\ UNCHANGED <<store, schema, proc, now, zone, ticks, last, input, output>>

\* temp, err := getTemperature()
StepGetTemperature ==
    \E i \in 1..Len(inflight), sensor \in SensorStates, ms \in MsResidues :
        LET got == GetTemperature(sensor, now, ms)
        IN  /\ inflight[i].pc = "getTemperature"
            /\ inflight' = [inflight EXCEPT
                               ![i].temp = got.temp,
                               ![i].pc = IF got.err THEN "done" ELSE "saveTemperature",
                               ![i].status = IF got.err THEN 500 ELSE 0]
            /\ UNCHANGED <<store, schema, proc, now, zone, ticks, last, input, output>>

\* if err := saveTemperature(temp); err != nil { log.Printf(...) }
StepSaveTemperature ==
    \E i \in 1..Len(inflight), insertOk \in BOOLEAN :
        LET saved == SaveTemperature(store, inflight[i].temp, now, insertOk)
        IN  /\ inflight[i].pc = "saveTemperature"
            /\ store' = saved.store
            /\ inflight' = [inflight EXCEPT
                               ![i].pc = "respond",
                               ![i].inserts = @ + 1,
                               ![i].insertOk = ~ saved.err,
                               ![i].row = IF saved.err THEN 0 ELSE Len(saved.store),
                               ![i].savedAt = now]
            /\ UNCHANGED <<schema, proc, now, zone, ticks, last, input, output>>

\* the reading is built with time.Now() and written as the response
StepRespond ==
    \E i \in 1..Len(inflight) :
        /\ inflight[i].pc = "respond"
        /\ inflight' = [inflight EXCEPT
                           ![i].pc = "done",
                           ![i].status = 200,
                           ![i].timestamp = Text("datetime", Fields(now + zone))]
        /\ UNCHANGED <<store, schema, proc, now, zone, ticks, last, input, output>>

NextConcurrent ==
    Accept \/ StepGetTemperature \/ StepSaveTemperature \/ StepRespond \/ Tick

SpecConcurrent == InitConcurrent /\ [][NextConcurrent]_vars

(***************************************************************************)
(* Properties.                                                             *)
(***************************************************************************)
KnownPeriods == {"day", "week", "month", "year"}

\* the last request was a chart-data request whose query succeeded
ChartAnswered == last.op = "chart" /\ last.queryOk

Points == last.body.elems

\* the query the handler runs for the period of the last request
LastQuery == Switch(IF last.period = "" THEN "day" ELSE last.period)

\* the start of the bucket an instant falls in: the hour under week, the day
\* under month, the month under year
BucketStart(period, t) ==
    CASE period = "week"  -> t - (t % 3600)
      [] period = "month" -> t - (t % SecondsPerDay)
      [] period = "year"  ->
           LET f == Fields(t) IN DaysFromCivil(f.y, f.mo, 1) * SecondsPerDay

\* the readings the query of the last request selects
SelectedReadings == Where(store, DatetimeNow(now, LastQuery.window))

\* point pt is the mean of the readings rows
IsMeanOf(pt, rows) ==
    /\ Len(rows) > 0
    /\ pt.temperature[1] * Len(rows) = SumTemps(rows) * pt.temperature[2]

\* C1: under week, month and year the result holds exactly one point per
\* bucket that has a reading in the window, at the start of the bucket, and
\* the point's temperature is the mean of the readings of that bucket
C1_OnePointPerBucketWithMean ==
    (ChartAnswered /\ last.period \in {"week", "month", "year"}) =>
        LET sel     == SelectedReadings
            bucket(r) == BucketStart(last.period, Instant(r.timestamp))
            buckets == {bucket(sel[i]) : i \in 1..Len(sel)}
        IN  /\ last.status = 200
            /\ Len(Points) = Cardinality(buckets)
            /\ \A b \in buckets :
                 \E i \in 1..Len(Points) :
                    /\ Points[i].unixTime = b
                    /\ IsMeanOf(Points[i],
                                SelectSeq(sel, LAMBDA r : bucket(r) = b))

\* C2: a successful append of value v followed at once by a chart-data
\* request with period day gives a result that holds a point of value v
C2_AppendThenDayShowsValue ==
    [][(/\ last.op = "temperature"
        /\ last.insertOk
        /\ last.status = 200
        /\ last'.op = "chart"
        /\ last'.period = "day"
        /\ last'.queryOk)
       => \E i \in 1..Len(last'.body.elems) :
             last'.body.elems[i].temperature = <<last.temperature, 1>>]_vars

C2_Witness ==
    /\ ChartAnswered
    /\ last.period = "day"
    /\ Len(store) = 2
    /\ store[2].timestamp = CurrentTimestamp(now)
    /\ \E i \in 1..Len(Points) :
          /\ Points[i].temperature = <<store[2].temperature, 1>>
          /\ Points[i].unixTime = now

\* C3: for every period the points of a result are in non-decreasing order
\* of unixTime
C3_PointsInTimeOrder ==
    ChartAnswered =>
        \A i \in 1..(Len(Points) - 1) : Points[i].unixTime <= Points[i + 1].unixTime

C3_Witness ==
    /\ ChartAnswered
    /\ last.period = "month"
    /\ Len(Points) = 2
    /\ Points[1].unixTime < Points[2].unixTime

\* C4: a request whose period is missing, empty or unknown is answered with
\* the status and the points of a request with period day, and with an error
\* status only when the query fails
C4_UnknownPeriodIsDay ==
    (last.op = "chart" /\ last.period \notin KnownPeriods) =>
        LET day == ChartDataHandler(store, now, "day", last.queryOk)
        IN  /\ last.status = day.status
            /\ last.body = day.body
            /\ last.queryOk => last.status = 200

C4_Witness ==
    /\ ChartAnswered
    /\ last.period = "decade"
    /\ last.status = 200
    /\ Len(Points) = 2

\* C5: GET /api/temperature answers 200 with the temperature that was read,
\* whatever the sensor file holds and whether or not the insert succeeds
C5_TemperatureAlways200 ==
    last.op = "temperature" =>
        /\ last.status = 200
        /\ last.sensor.state = "valid" =>
              last.temperature * 1000 = last.sensor.milli * Scale
        /\ last.sensor.state # "valid" =>
              (40 * Scale <= last.temperature /\ last.temperature <= 80 * Scale)

C5_Witness ==
    /\ last.op = "temperature"
    /\ last.sensor.state = "malformed"
    /\ ~ last.insertOk
    /\ last.status = 200
    /\ last.temperature = 60 * Scale

\* C6: when the query succeeds the response is 200 and its body is a JSON
\* array, the empty array when no reading falls in the window
C6_BodyIsJsonArray ==
    ChartAnswered => (last.status = 200 /\ last.body.json = "array")

\* C8: when the query fails the response is 500 with an error message and
\* no points, the query was issued once and the store is unchanged
C8_QueryFailureIs500 ==
    [][(last'.op = "chart" /\ ~ last'.queryOk)
       => /\ last'.status = 500
          /\ last'.body.json = "error text"
          /\ last'.body.elems = <<>>
          /\ last'.queries = 1
          /\ store' = store]_vars

C8_Witness ==
    /\ last.op = "chart"
    /\ ~ last.queryOk
    /\ last.status = 500
    /\ last.body.elems = <<>>
    /\ Len(store) = 2

Age(r) == now - Instant(r.timestamp)

\* the readings that are not older than w seconds
NotOlderThan(w) == SelectSeq(store, LAMBDA r : Age(r) <= w)

\* the fixed windows: 24 hours, 7 days, 30 days, 365 days
FixedWindow(period) ==
    CASE period = "week"  -> 7 * SecondsPerDay
      [] period = "month" -> 30 * SecondsPerDay
      [] period = "year"  -> 365 * SecondsPerDay
      [] OTHER            -> SecondsPerDay

IsLeapYear(y) == (y % 4 = 0 /\ y % 100 # 0) \/ y % 400 = 0

DaysInMonth(y, m) ==
    IF m = 2 THEN (IF IsLeapYear(y) THEN 29 ELSE 28)
    ELSE IF m \in {4, 6, 9, 11} THEN 30 ELSE 31

\* the calendar windows at instant t: 24 hours, 7 days, as many days as the
\* month before the month of t has, and 366 days when a 29 February lies in
\* the year that ends at t, else 365
CalendarWindow(period, t) ==
    LET f == Fields(t)
    IN  CASE period = "week"  -> 7 * SecondsPerDay
          [] period = "month" ->
               (IF f.mo = 1 THEN DaysInMonth(f.y - 1, 12)
                ELSE DaysInMonth(f.y, f.mo - 1)) * SecondsPerDay
          [] period = "year"  ->
               (IF (f.mo <= 2 /\ IsLeapYear(f.y - 1)) \/ (f.mo >= 3 /\ IsLeapYear(f.y))
                THEN 366 ELSE 365) * SecondsPerDay
          [] OTHER            -> SecondsPerDay

\* C9 as claimed: the rows of the query's result are made of exactly the
\* readings not older than 24 hours (day), 7 days (week), 30 days (month),
\* 365 days (year)
C9_FixedWindows ==
    ChartAnswered =>
        last.rows = Aggregate(NotOlderThan(FixedWindow(last.period)), LastQuery)

\* C9 as amended: the rows of the query's result are made of exactly the
\* readings not older than 24 hours (day), 7 days (week), one calendar month
\* (month) and one calendar year (year)
C9_CalendarWindows ==
    ChartAnswered =>
        last.rows = Aggregate(NotOlderThan(CalendarWindow(last.period, now)), LastQuery)

C9_Witness ==
    /\ ChartAnswered
    /\ last.period = "month"
    /\ Len(store) = 2
    /\ Age(store[1]) <= 30 * SecondsPerDay
    /\ Age(store[1]) > CalendarWindow("month", now)
    /\ Len(last.rows) = 1
    /\ Len(Points) = 1

\* C10: the synthetic value getTemperature returns when the sensor file
\* cannot be read or parsed lies in the range 40..80 degrees, at every
\* second of the minute and every residue of the millisecond clock
C10_SyntheticInRange ==
    (output.fn = "getTemperature" /\ input.sensor.state # "valid") =>
        /\ ~ output.result.err
        /\ 40 * Scale <= output.result.temp
        /\ output.result.temp <= 80 * Scale

C10_Witness ==
    /\ output.fn = "getTemperature"
    /\ input.sensor.state = "unreadable"
    /\ input.sec % 60 = 59
    /\ input.ms = 0
    /\ output.result.temp * 6 = 295 * Scale

\* the process has just run initDatabase
RanInitDatabase == proc = "main" /\ proc' # "main"

\* C14: initDatabase leaves every reading as it is; on a database that has
\* the schema it succeeds (when its statements can be executed) and changes
\* nothing; running it twice gives the database that running it once gives
C14_InitDatabaseIdempotent ==
    [][RanInitDatabase =>
        LET d     == [schema |-> schema, store |-> store]
            once  == InitDatabase(d, TRUE, TRUE, TRUE)
            twice == InitDatabase([schema |-> once.schema, store |-> once.store],
                                  TRUE, TRUE, TRUE)
        IN  /\ store' = store
            /\ (schema = FullSchema /\ last'.openOk /\ last'.tableOk
                    /\ last'.indexOk)
                  => (proc' = "serving" /\ schema' = schema)
            /\ ~ once.fatal
            /\ twice = once]_vars

C14_Witness ==
    /\ last.op = "main"
    /\ ~ last.fatal
    /\ proc = "serving"
    /\ schema = FullSchema
    /\ Len(store) = 2

\* C15: a request is handled only by a process whose initDatabase has
\* succeeded, so on a database that has the table and the index; when
\* sql.Open or one of the two statements fails the process ends and does not
\* listen
C15_NoRequestBeforeInit ==
    /\ last.op \in {"index", "temperature", "chart"} => proc = "serving"
    /\ proc = "serving" => schema = FullSchema
    /\ (last.op = "main"
            /\ ~ (last.openOk /\ last.tableOk /\ last.indexOk))
          => (last.fatal /\ proc = "exited")

C15_Witness ==
    /\ last.op = "main"
    /\ last.openOk
    /\ last.tableOk
    /\ ~ last.indexOk
    /\ proc = "exited"
    /\ schema = [table |-> TRUE, index |-> FALSE]

\* C11: no step of the service changes or removes a stored reading: the
\* store after a step begins with the store before it, and an index or a
\* chart-data request leaves the store as it is
C11_StoreAppendOnly ==
    [][/\ Len(store') >= Len(store)
       /\ SubSeq(store', 1, Len(store)) = store
       /\ last'.op \in {"index", "chart"} => store' = store]_vars

C11_Witness ==
    /\ last.op = "chart"
    /\ Len(store) = 2
    /\ store[1].id = 1
    /\ store[2].id = 2
    /\ Instant(store[1].timestamp) < Instant(store[2].timestamp)
    /\ now = Instant(store[2].timestamp)

\* C13: under day the result holds at most one point per 5-minute interval
C13_DayOnePointPerFiveMinutes ==
    (ChartAnswered /\ last.period = "day") =>
        \A i \in 1..Len(Points) : \A j \in 1..Len(Points) :
            i # j => Points[i].unixTime \div (5 * 60) # Points[j].unixTime \div (5 * 60)

\* C16: getTemperature returns the content of the sensor file divided by
\* 1000, not limited to a range, exactly when the file is read and parsed;
\* else it returns 55 + 10 * (0.5 - s/60) + 0.2 * (r - 5) for the second s of
\* the minute and the residue r of the millisecond clock; never an error
C16_SensorValueOrSynthetic ==
    output.fn = "getTemperature" =>
        /\ ~ output.result.err
        /\ input.sensor.state = "valid" =>
              output.result.temp * 1000 = input.sensor.milli * Scale
        /\ input.sensor.state # "valid" =>
              output.result.temp * 30 =
                  Scale * (1800 - 5 * (input.sec % 60) + 6 * ((input.ms % 10) - 5))

C16_Witness ==
    /\ output.fn = "getTemperature"
    /\ input.sensor.state = "valid"
    /\ input.sensor.milli = 95000
    /\ output.result.temp = 95 * Scale

\* C18: under week, month and year every point lies at the start of its
\* bucket, is the mean of the selected readings of that bucket, of which
\* there is at least one, and no two points lie in one bucket
C18_PointsAlignedToBuckets ==
    (ChartAnswered /\ last.period \in {"week", "month", "year"}) =>
        LET sel == SelectedReadings
            bucket(r) == BucketStart(last.period, Instant(r.timestamp))
        IN  /\ \A i \in 1..Len(Points) :
                  /\ Points[i].unixTime = BucketStart(last.period, Points[i].unixTime)
                  /\ IsMeanOf(Points[i],
                              SelectSeq(sel, LAMBDA r : bucket(r) = Points[i].unixTime))
            /\ \A i \in 1..Len(Points) : \A j \in 1..Len(Points) :
                  i # j => Points[i].unixTime # Points[j].unixTime

C18_Witness ==
    /\ ChartAnswered
    /\ last.period = "year"
    /\ Len(Points) = 2
    /\ Points[1].unixTime =
          Instant([y |-> 2024, mo |-> 2, d |-> 1, h |-> 0, mi |-> 0, s |-> 0])
    /\ Points[2].unixTime =
          Instant([y |-> 2024, mo |-> 3, d |-> 1, h |-> 0, mi |-> 0, s |-> 0])

\* C19: a temperature request reads the sensor once and inserts once; when
\* the insert succeeds the store gains one row, of the value of the
\* response, after the rows it had; when the insert fails the store is
\* unchanged; in both cases the response carries the value that was read
C19_OneReadOneInsert ==
    [][last'.op = "temperature" =>
        /\ last'.reads = 1
        /\ last'.inserts = 1
        /\ \E ms \in MsResidues :
              last'.temperature = GetTemperature(last'.sensor, now, ms).temp
        /\ IF last'.insertOk
           THEN /\ Len(store') = Len(store) + 1
                /\ SubSeq(store', 1, Len(store)) = store
                /\ store'[Len(store')].temperature = last'.temperature
           ELSE store' = store]_vars

C19_Witness ==
    /\ last.op = "temperature"
    /\ ~ last.insertOk
    /\ last.sensor = [state |-> "valid", milli |-> 50000]
    /\ last.temperature = 50 * Scale
    /\ Len(store) = 1
    /\ store[1].temperature = 60 * Scale

\* C20: the timestamp of the response of a temperature request whose insert
\* succeeded is the timestamp of the row the request appended
C20_ResponseTimeIsStoredTime ==
    (last.op = "temperature" /\ last.insertOk) =>
        Key(last.timestamp) = Key(store[Len(store)].timestamp)

\* the layout the claim gives for a period, and what it shows of an instant
DisplayLayout(period) ==
    CASE period = "week"  -> "01-02 15:04"
      [] period = "month" -> "01-02"
      [] period = "year"  -> "2006-01"
      [] OTHER            -> "15:04"

Shown(period, t) ==
    LET f == Fields(t)
    IN  CASE period = "week"  -> <<f.mo, f.d, f.h, f.mi>>
          [] period = "month" -> <<f.mo, f.d>>
          [] period = "year"  -> <<f.y, f.mo>>
          [] OTHER            -> <<f.h, f.mi>>

\* the three encodings of instant t are read back as t (the date one when t
\* is a midnight)
EncodingsAgree(t) ==
    /\ ParseTimestamp(Text("rfc3339", Fields(t))) = [err |-> FALSE, unix |-> t]
    /\ ParseTimestamp(Text("datetime", Fields(t))) = [err |-> FALSE, unix |-> t]
    /\ t % SecondsPerDay = 0 =>
          ParseTimestamp(Date(Text("datetime", Fields(t)))) = [err |-> FALSE, unix |-> t]

\* C17: the timestamp string of a point is the point's unixTime written in
\* the layout of the period (day and unknown: hour:minute, week: month-day
\* hour:minute, month: month-day, year: year-month), and an instant written
\* as RFC 3339, as date and time or (a midnight) as a date is read back as
\* the same unixTime
C17_StringAndUnixTimeAgree ==
    ChartAnswered =>
        /\ \A i \in 1..Len(Points) :
              Points[i].timestamp =
                  [layout |-> DisplayLayout(last.period),
                   text   |-> Shown(last.period, Points[i].unixTime)]
        /\ \A k \in 1..Len(store) :
              LET t == Instant(store[k].timestamp)
              IN  /\ EncodingsAgree(t)
                  /\ EncodingsAgree(t - (t % SecondsPerDay))

C17_Witness ==
    /\ ChartAnswered
    /\ last.period = "month"
    /\ Len(Points) = 2
    /\ Points[1].timestamp = [layout |-> "01-02", text |-> <<2, 14>>]
    /\ Points[2].timestamp = [layout |-> "01-02", text |-> <<2, 15>>]
    /\ Points[2].unixTime - Points[1].unixTime = SecondsPerDay

\* the requests that have made their insert, and those whose insert was
\* reported as a success
PastInsert == {i \in 1..Len(inflight) : inflight[i].pc \in {"respond", "done"}}
Succeeded == {i \in PastInsert : inflight[i].insertOk}

\* C12: with temperature requests interleaved in any way, a request has
\* made one insert once it is past saveTemperature and none before, the
\* store holds as many rows as inserts were reported successful, and each
\* such request has a row of its own that holds its value and the time of
\* its insert
C12_ConcurrentInsertsSerialize ==
    /\ \A i \in 1..Len(inflight) :
          inflight[i].inserts = IF i \in PastInsert THEN 1 ELSE 0
    /\ Len(store) = Cardinality(Succeeded)
    /\ \A i \in Succeeded :
          /\ inflight[i].row \in 1..Len(store)
          /\ store[inflight[i].row] =
                [id |-> inflight[i].row, temperature |-> inflight[i].temp,
                 timestamp |-> CurrentTimestamp(inflight[i].savedAt)]
    /\ \A i \in Succeeded : \A j \in Succeeded :
          i # j => inflight[i].row # inflight[j].row

C12_Witness ==
    /\ Len(inflight) = 2
    /\ inflight[1].pc = "done"
    /\ inflight[2].pc = "done"
    /\ inflight[1].insertOk
    /\ inflight[2].insertOk
    /\ inflight[1].row = 2
    /\ inflight[2].row = 1
    /\ inflight[1].temp # inflight[2].temp
    /\ inflight[1].savedAt = inflight[2].savedAt
====
